---- MODULE Spec2Model ----
(***************************************************************************)
(* page2cbr.py: fetch a page, extract candidate image URLs, sequence them, *)
(* download each one into a positionally named file, and pack the working  *)
(* directory into a CBR (rar) or CBZ (zip) archive.                        *)
(*                                                                         *)
(* Strings are sequences of one-character strings; characters are ordered  *)
(* by their position in Alphabet, which lists them in code-point order.    *)
(***************************************************************************)
EXTENDS Integers, Sequences, FiniteSets, TLC

\* ------------------------------------------------------------ bounds
\* Largest value of --max-images that is explored (0 = unlimited).
MaxImagesOpt == 2
\* Largest number of <img> elements of a generated page (SpecSeq).
MaxImgTags == 2

\* ------------------------------------------------------------ characters

Alphabet ==
  << " ", "\"", "#", "&", "'", ",", ".", "/",
     "0", "1", "2", "3", "4", "5", "6", "7", "8", "9",
     ":", ";", "=", "?",
     "A", "B", "C", "D", "E", "F", "G", "H", "I", "J", "K", "L", "M",
     "N", "O", "P", "Q", "R", "S", "T", "U", "V", "W", "X", "Y", "Z",
     "a", "b", "c", "d", "e", "f", "g", "h", "i", "j", "k", "l", "m",
     "n", "o", "p", "q", "r", "s", "t", "u", "v", "w", "x", "y", "z" >>

Chars == {Alphabet[i] : i \in 1..Len(Alphabet)}

OrdMap == [c \in Chars |-> CHOOSE i \in 1..Len(Alphabet) : Alphabet[i] = c]

Ord(c) == OrdMap[c]

IsDigit(c) == Ord(c) >= Ord("0") /\ Ord(c) <= Ord("9")

IsUpper(c) == Ord(c) >= Ord("A") /\ Ord(c) <= Ord("Z")

\* str.lower() on one character
LowerChar(c) == IF IsUpper(c) THEN Alphabet[Ord(c) + (Ord("a") - Ord("A"))] ELSE c

\* str.lower()
Lower(s) == [i \in 1..Len(s) |-> LowerChar(s[i])]

\* s[i:] (1-based, inclusive)
From(s, i) == IF i > Len(s) THEN <<>> ELSE SubSeq(s, i, Len(s))

\* s.startswith(p) at offset i
StartsAt(s, i, p) ==
  /\ i >= 1
  /\ i + Len(p) - 1 <= Len(s)
  /\ \A k \in 1..Len(p) : s[i + k - 1] = p[k]

\* Python's str < str: lexicographic by code point
RECURSIVE StrLess(_, _)
StrLess(a, b) ==
  IF b = <<>> THEN FALSE
  ELSE IF a = <<>> THEN TRUE
  ELSE IF a[1] = b[1] THEN StrLess(Tail(a), Tail(b))
  ELSE Ord(a[1]) < Ord(b[1])

\* int("0012") for a run of decimal digits
RECURSIVE ToInt(_)
ToInt(d) ==
  IF d = <<>> THEN 0
  ELSE 10 * ToInt(SubSeq(d, 1, Len(d) - 1)) + (Ord(d[Len(d)]) - Ord("0"))

\* ------------------------------------------------------------ natural_key

TextTok(t) == [num |-> FALSE, n |-> 0, t |-> Lower(t)]

NumTok(d) == [num |-> TRUE, n |-> ToInt(d), t |-> <<>>]

\* re.split(r"(\d+)", s) with each piece mapped: digit runs to int, text to
\* lower case.  The pieces alternate text, digits, text, ..., text.
RECURSIVE SplitDigits(_, _, _, _, _)
SplitDigits(s, i, cur, inNum, acc) ==
  IF i > Len(s)
  THEN IF inNum THEN acc \o <<NumTok(cur), TextTok(<<>>)>>
                ELSE Append(acc, TextTok(cur))
  ELSE IF IsDigit(s[i])
       THEN IF inNum THEN SplitDigits(s, i + 1, Append(cur, s[i]), TRUE, acc)
                     ELSE SplitDigits(s, i + 1, <<s[i]>>, TRUE, Append(acc, TextTok(cur)))
       ELSE IF inNum THEN SplitDigits(s, i + 1, <<s[i]>>, FALSE, Append(acc, NumTok(cur)))
                     ELSE SplitDigits(s, i + 1, Append(cur, s[i]), FALSE, acc)

natural_key(s) == SplitDigits(s, 1, <<>>, FALSE, <<>>)

TokLess(a, b) == IF a.num /\ b.num THEN a.n < b.n ELSE StrLess(a.t, b.t)

\* Python's list < list
RECURSIVE KeyLess(_, _)
KeyLess(k1, k2) ==
  IF k2 = <<>> THEN FALSE
  ELSE IF k1 = <<>> THEN TRUE
  ELSE IF k1[1] = k2[1] THEN KeyLess(Tail(k1), Tail(k2))
  ELSE TokLess(k1[1], k2[1])

KeyLeq(k1, k2) == ~KeyLess(k2, k1)

\* sorted(xs, key=natural_key): stable, an element goes after every element
\* already placed whose key is not greater.
RECURSIVE InsertByKey(_, _)
InsertByKey(sorted, x) ==
  IF sorted = <<>> THEN <<x>>
  ELSE IF KeyLess(natural_key(x), natural_key(sorted[1]))
       THEN <<x>> \o sorted
       ELSE <<sorted[1]>> \o InsertByKey(Tail(sorted), x)

RECURSIVE SortNaturalFrom(_, _, _)
SortNaturalFrom(xs, i, acc) ==
  IF i > Len(xs) THEN acc ELSE SortNaturalFrom(xs, i + 1, InsertByKey(acc, xs[i]))

SortNatural(xs) == SortNaturalFrom(xs, 1, <<>>)

\* ------------------------------------------------------------ URL helpers

ImageExts ==
  { <<"j","p","g">>, <<"j","p","e","g">>, <<"p","n","g">>, <<"g","i","f">>,
    <<"w","e","b","p">>, <<"b","m","p">>, <<"t","i","f">>, <<"t","i","f","f">> }

\* IMG_EXT_RE matches at the dot at position i: an extension, case-insensitive,
\* followed by "?", "#" or the end of the string.
ExtMatchAt(u, i) ==
  /\ u[i] = "."
  /\ \E e \in ImageExts :
       /\ i + Len(e) <= Len(u)
       /\ Lower(SubSeq(u, i + 1, i + Len(e))) = e
       /\ \/ i + Len(e) = Len(u)
          \/ u[i + Len(e) + 1] \in {"?", "#"}

is_probably_image_url(u) == \E i \in 1..Len(u) : ExtMatchAt(u, i)

AmpEntity == <<"&","a","m","p",";">>

\* html.unescape, restricted to the entity &amp;
RECURSIVE Unescape(_)
Unescape(s) ==
  IF s = <<>> THEN <<>>
  ELSE IF StartsAt(s, 1, AmpEntity) THEN <<"&">> \o Unescape(From(s, Len(AmpEntity) + 1))
  ELSE <<s[1]>> \o Unescape(Tail(s))

RECURSIVE LStrip(_)
LStrip(s) == IF s # <<>> /\ s[1] = " " THEN LStrip(Tail(s)) ELSE s

RECURSIVE RStrip(_)
RStrip(s) == IF s # <<>> /\ s[Len(s)] = " " THEN RStrip(SubSeq(s, 1, Len(s) - 1)) ELSE s

\* str.strip()
Strip(s) == RStrip(LStrip(s))

Quoted(u, q) == u # <<>> /\ u[1] = q /\ u[Len(u)] = q

\* u[1:-1]
Inner(u) == IF Len(u) <= 2 THEN <<>> ELSE SubSeq(u, 2, Len(u) - 1)

clean_url(raw) ==
  LET u == Strip(Unescape(raw))
      v == IF Quoted(u, "\"") \/ Quoted(u, "'") THEN Inner(u) ELSE u
  IN Strip(v)

\* str.split(","): the pieces between commas, empty pieces included
RECURSIVE SplitComma(_, _, _)
SplitComma(s, cur, acc) ==
  IF s = <<>> THEN Append(acc, cur)
  ELSE IF s[1] = "," THEN SplitComma(Tail(s), <<>>, Append(acc, cur))
  ELSE SplitComma(Tail(s), Append(cur, s[1]), acc)

\* part.split()[0] of a stripped, non-empty part: up to the first blank
RECURSIVE FirstField(_)
FirstField(s) ==
  IF s = <<>> \/ s[1] = " " THEN <<>> ELSE <<s[1]>> \o FirstField(Tail(s))

RECURSIVE SrcsetUrls(_, _, _)
SrcsetUrls(parts, i, urls) ==
  IF i > Len(parts) THEN urls
  ELSE LET part == Strip(parts[i])
       IN IF part = <<>> THEN SrcsetUrls(parts, i + 1, urls)
          ELSE SrcsetUrls(parts, i + 1, Append(urls, Strip(FirstField(part))))

parse_srcset(srcset) == SrcsetUrls(SplitComma(srcset, <<>>, <<>>), 1, <<>>)

SchemeHttp == <<"h","t","t","p",":","/","/">>

SchemeHttps == <<"h","t","t","p","s",":","/","/">>

\* length of the scheme prefix http:// or https:// at offset i, 0 if neither
SchemeLenAt(s, i) ==
  IF StartsAt(s, i, SchemeHttps) THEN Len(SchemeHttps)
  ELSE IF StartsAt(s, i, SchemeHttp) THEN Len(SchemeHttp)
  ELSE 0

\* first position >= i holding "/", or Len(s) + 1
RECURSIVE NextSlash(_, _)
NextSlash(s, i) == IF i > Len(s) \/ s[i] = "/" THEN i ELSE NextSlash(s, i + 1)

\* last position <= i holding "/", or 0
RECURSIVE PrevSlash(_, _)
PrevSlash(s, i) == IF i < 1 \/ s[i] = "/" THEN i ELSE PrevSlash(s, i - 1)

\* first position >= i holding "?" or "#", or Len(s) + 1
RECURSIVE PathEnd(_, _)
PathEnd(s, i) == IF i > Len(s) \/ s[i] \in {"?", "#"} THEN i ELSE PathEnd(s, i + 1)

\* end of scheme://netloc of an absolute URL
OriginEnd(b) ==
  LET a == SchemeLenAt(b, 1) + 1
      slash == NextSlash(b, a)
      mark == PathEnd(b, a)
  IN (IF slash < mark THEN slash ELSE mark) - 1

\* urllib.parse.urljoin for the reference forms that occur in the pages
\* explored: an absolute http(s) URL, an absolute path, a relative path
\* without dot segments.
urljoin(base, u) ==
  IF SchemeLenAt(u, 1) > 0 THEN u
  ELSE IF u[1] = "/" THEN SubSeq(base, 1, OriginEnd(base)) \o u
  ELSE SubSeq(base, 1, PrevSlash(base, PathEnd(base, 1) - 1)) \o u

\* urlparse(u).path of an absolute URL
UrlPath(u) == SubSeq(u, OriginEnd(u) + 1, PathEnd(u, 1) - 1)

\* position of the first character of the basename that is not a leading dot
RECURSIVE SkipDots(_, _)
SkipDots(p, i) == IF i <= Len(p) /\ p[i] = "." THEN SkipDots(p, i + 1) ELSE i

\* last position >= lo holding ".", or 0
RECURSIVE LastDot(_, _, _)
LastDot(p, i, lo) == IF i < lo THEN 0 ELSE IF p[i] = "." THEN i ELSE LastDot(p, i - 1, lo)

\* os.path.splitext(p)[1]
SplitExt(p) ==
  LET nameStart == PrevSlash(p, Len(p)) + 1
      dot == LastDot(p, Len(p), SkipDots(p, nameStart) + 1)
  IN IF dot = 0 \/ SkipDots(p, nameStart) > Len(p) THEN <<>> ELSE From(p, dot)

DefaultExt == <<".","j","p","g">>

\* lines 260-262: the extension used in the file name
FileExt(u) ==
  LET ext == Lower(SplitExt(UrlPath(u)))
  IN IF ext = <<>> \/ Len(ext) > 6 THEN DefaultExt ELSE ext

\* decimal digits of a natural number, most significant first
RECURSIVE Digits(_)
Digits(n) ==
  IF n < 10 THEN <<Alphabet[Ord("0") + n]>>
  ELSE Append(Digits(n \div 10), Alphabet[Ord("0") + (n % 10)])

RECURSIVE ZeroPad(_, _)
ZeroPad(d, w) == IF Len(d) >= w THEN d ELSE ZeroPad(<<"0">> \o d, w)

\* f"{idx:04d}{ext}"
FileName(idx, u) == ZeroPad(Digits(idx), 4) \o FileExt(u)

\* ------------------------------------------------------------ pages

\* A parsed page: its <img> elements (attrs: the values of src, data-src,
\* data-original, data-lazy, data-img, data-image that are present, in that
\* order; srcset, data_srcset: "" when absent), the href of its <a> elements,
\* and the text of its inline scripts.  Attribute values are held as written
\* in the HTML text.
Img(attrs, srcset, data_srcset) ==
  [attrs |-> attrs, srcset |-> srcset, data_srcset |-> data_srcset]

Page(imgs, anchors, scripts) == [imgs |-> imgs, anchors |-> anchors, scripts |-> scripts]

\* BeautifulSoup hands out attribute values with entities decoded
SoupAttr(w) == Unescape(w)

UrlStops == {" ", "'", "\""}

\* end of the run of characters other than blank and quotes that starts at i
RECURSIVE RunEnd(_, _)
RunEnd(s, i) == IF i > Len(s) \/ s[i] \in UrlStops THEN i - 1 ELSE RunEnd(s, i + 1)

\* re.findall(r"https?://[^\s'\"<>]+", s): the non-overlapping matches, left
\* to right, as a set
RECURSIVE FindUrls(_, _)
FindUrls(s, i) ==
  IF i > Len(s) THEN {}
  ELSE LET n == SchemeLenAt(s, i)
           e == RunEnd(s, i + n)
       IN IF n > 0 /\ e >= i + n
          THEN {SubSeq(s, i, e)} \cup FindUrls(s, e + 1)
          ELSE FindUrls(s, i + 1)

RECURSIVE FlattenSeq(_)
FlattenSeq(ss) == IF ss = <<>> THEN <<>> ELSE ss[1] \o FlattenSeq(Tail(ss))

\* the texts of the page in which the raw scan can find a URL
PageTexts(html) ==
  FlattenSeq([i \in 1..Len(html.imgs) |->
                html.imgs[i].attrs \o <<html.imgs[i].srcset, html.imgs[i].data_srcset>>])
    \o html.anchors \o html.scripts

\* line 72: raw_candidates
RawCandidates(html) ==
  LET texts == PageTexts(html)
  IN UNION {FindUrls(texts[i], 1) : i \in 1..Len(texts)}

\* lines 73-75: the raw candidates the loop appends; the others are skipped
\* wherever the iteration of the set meets them
RawKept(html) == {c \in RawCandidates(html) : is_probably_image_url(c)}

NonEmpty(v) == v # <<>>

\* lines 55-62: the values one <img> contributes
ImgValues(img) ==
  LET srcset == IF SoupAttr(img.srcset) # <<>> THEN SoupAttr(img.srcset)
                ELSE SoupAttr(img.data_srcset)
  IN SelectSeq([i \in 1..Len(img.attrs) |-> SoupAttr(img.attrs[i])], NonEmpty)
       \o (IF srcset # <<>> THEN parse_srcset(srcset) ELSE <<>>)

\* lines 65-68: the href values kept
AnchorValues(html) ==
  SelectSeq([i \in 1..Len(html.anchors) |-> SoupAttr(html.anchors[i])],
            is_probably_image_url)

\* lines 52-75: urls, with the raw candidates kept met in the order rawOrder
CollectUrls(html, rawOrder) ==
  FlattenSeq([i \in 1..Len(html.imgs) |-> ImgValues(html.imgs[i])])
    \o AnchorValues(html)
    \o rawOrder

InSeq(x, s) == \E i \in 1..Len(s) : s[i] = x

\* KeepAbs comparing with the latest URL kept only
KeepAbs_LastOnly(abs_u, norm) == norm = <<>> \/ norm[Len(norm)] # abs_u

\* line 85: whether abs_u goes into norm
KeepAbs(abs_u, norm) == ~InSeq(abs_u, norm)

\* lines 78-87: normalize, absolutize, dedupe
RECURSIVE Normalize(_, _, _, _)
Normalize(base_url, urls, i, norm) ==
  IF i > Len(urls) THEN norm
  ELSE LET u == clean_url(urls[i])
       IN IF u = <<>> THEN Normalize(base_url, urls, i + 1, norm)
          ELSE LET abs_u == urljoin(base_url, u)
               IN Normalize(base_url, urls, i + 1,
                            IF KeepAbs(abs_u, norm) THEN Append(norm, abs_u) ELSE norm)

extract_image_urls_from_html(base_url, html, rawOrder) ==
  Normalize(base_url, CollectUrls(html, rawOrder), 1, <<>>)

\* every order in which the elements of the finite set S can be visited
Orders(S) ==
  {p \in [1..Cardinality(S) -> S] : \A i, j \in DOMAIN p : i # j => p[i] # p[j]}

\* lines 237-238
ExtFilter(args, urls) ==
  IF ~args.no_ext_filter THEN SelectSeq(urls, is_probably_image_url) ELSE urls

\* lines 240-241: img_urls[: max_images]
Truncate(args, urls) ==
  IF args.max_images > 0 /\ Len(urls) > args.max_images
  THEN SubSeq(urls, 1, args.max_images)
  ELSE urls

\* lines 237-241: the list tested for emptiness at line 243
Selected(args, urls) == Truncate(args, ExtFilter(args, urls))

\* Sequencer with the sort moved before the truncation
Sequencer_SortFirst(args, urls) == Truncate(args, SortNatural(ExtFilter(args, urls)))

\* lines 237-249: the list the download loop walks
Sequencer(args, urls) == SortNatural(Selected(args, urls))

\* ------------------------------------------------------------ download_one

\* line 123: the minimum size of a usable image
MinSize == 1024

\* What the server and the local file system do to one request.
\*   status_ok    the request returned and raise_for_status() passed
\*   ctype_image  the Content-Type header contains "image"
\*   body         the size of the body the server sends
\*   fault        "none", or what interrupts streaming the body to the file:
\*                "os_open" (open() raises OSError), "os_write" (write() raises
\*                OSError), "transport" (iter_content raises RequestException)
\*   written      the bytes in the file when streaming ends
Resp(status_ok, ctype_image, body, fault, written) ==
  [status_ok |-> status_ok, ctype_image |-> ctype_image, body |-> body,
   fault |-> fault, written |-> written]

BodySizes == {MinSize - 1, MinSize}

\* the responses explored: a failed request; a complete body of either size,
\* with or without an image content type; a body of 2 * MinSize bytes whose
\* streaming is interrupted before the file exists, at 0 bytes or at MinSize
\* bytes
Responses ==
  {Resp(FALSE, FALSE, 0, "none", 0)}
    \cup {Resp(TRUE, c, b, "none", b) : c \in BOOLEAN, b \in BodySizes}
    \cup {Resp(TRUE, TRUE, 2 * MinSize, "os_open", 0)}
    \cup {Resp(TRUE, TRUE, 2 * MinSize, f, w) :
            f \in {"os_write", "transport"}, w \in {0, MinSize}}

\* DownloadResult, with what the call left at out_path
DownloadResult(ok, reason, wrote, size) ==
  [ok |-> ok, reason |-> reason, wrote |-> wrote, size |-> size]

\* TooSmall with the comparison off by one
TooSmall_OffByOne(size) == size <= MinSize

\* line 123: the size test on the file just written
TooSmall(size) == size < MinSize

\* lines 106-131
download_one(url, resp) ==
  IF ~resp.status_ok THEN DownloadResult(FALSE, "http", FALSE, 0)
  ELSE IF ~resp.ctype_image /\ ~is_probably_image_url(url)
       THEN DownloadResult(FALSE, "ctype", FALSE, 0)
  ELSE IF resp.fault = "os_open" THEN DownloadResult(FALSE, "fs", FALSE, 0)
  ELSE IF resp.fault = "os_write" THEN DownloadResult(FALSE, "fs", TRUE, resp.written)
  ELSE IF resp.fault = "transport" THEN DownloadResult(FALSE, "http", TRUE, resp.written)
  ELSE IF TooSmall(resp.written) THEN DownloadResult(FALSE, "small", TRUE, resp.written)
  ELSE DownloadResult(TRUE, "", TRUE, resp.written)

\* RecordFailure that keeps no record of a file system error
RecordFailure_DropsFs(failures, u, res) ==
  IF res.ok \/ res.reason = "fs" THEN failures ELSE Append(failures, <<u, res.reason>>)

\* lines 267-271: the failure list after one item
RecordFailure(failures, u, res) ==
  IF res.ok THEN failures ELSE Append(failures, <<u, res.reason>>)

\* lines 272-277: the working directory after the clean-up of a failed item;
\* remove_raises: os.remove raises OSError, which the handler swallows
RemovePartial(files, fname, remove_raises) ==
  IF fname \in files /\ ~remove_raises THEN files \ {fname} ELSE files

\* ------------------------------------------------------------ packaging

\* lines 134-141; on_path: shutil.which finds rar or rar.exe
find_rar_executable(explicit, on_path) ==
  IF explicit THEN "explicit" ELSE IF on_path THEN "rar" ELSE "none"

\* RarFiles without the sort: the names as os.listdir gave them
RarFiles_Unsorted(listing) == listing

\* line 148: the command line's file list, from the order os.listdir gave
RarFiles(listing) == SortNatural(listing)

\* ZipFiles without the sort: the names as os.listdir gave them
ZipFiles_Unsorted(listing) == listing

\* line 162: the archive's entries, from the order os.listdir gave
ZipFiles(listing) == SortNatural(listing)

\* lines 149-156, on the file list of line 148; run: "ok" (return code 0),
\* "nonzero", "oserror" (the executable cannot be started).  raised: the call
\* ends with an exception; invoked: subprocess.run was reached.
make_cbr_with_rar(cbrFiles, run) ==
  [raised |-> cbrFiles = <<>> \/ run # "ok",
   invoked |-> cbrFiles # <<>>,
   entries |-> cbrFiles]

\* lines 163-168, on the file list of line 162; zip_ok: writing the ZIP file
\* raises nothing.  invoked: zipfile.ZipFile was reached.
make_cbz_zip(cbzFiles, zip_ok) ==
  [raised |-> cbzFiles = <<>> \/ ~zip_ok,
   invoked |-> cbzFiles # <<>>,
   entries |-> cbzFiles]

NoArchive == [kind |-> "none", entries |-> <<>>]

\* the exit status of the interpreter when main ends with an uncaught exception
ExitUncaught == 1

\* lines 222, 230
ExitFetchFailed == 2

\* line 246
ExitNoCandidates == 3

\* line 282
ExitNoImages == 4

\* line 310
ExitOk == 0

\* the run has not ended
Running == -1

\* AfterLoop without the test for zero successes
AfterLoop_NoTest(okCount) == Running

\* lines 280-282: the exit code after the loop, Running to go on to packaging
AfterLoop(okCount) == IF okCount = 0 THEN ExitNoImages ELSE Running

\* PackageOutcome with a failure of the ZIP backend swallowed
PackageOutcome_Swallow(rar_cmd, cbr, cbz) ==
  LET rarCall == IF cbr.invoked THEN <<[backend |-> "rar", files |-> cbr.entries]>> ELSE <<>>
      zipCall == IF cbz.invoked THEN <<[backend |-> "zip", files |-> cbz.entries]>> ELSE <<>>
  IN IF rar_cmd # "none" /\ ~cbr.raised
     THEN [calls |-> rarCall, archive |-> [kind |-> "cbr", entries |-> cbr.entries],
           code |-> ExitOk]
     ELSE [calls |-> (IF rar_cmd # "none" THEN rarCall ELSE <<>>) \o zipCall,
           archive |-> IF cbz.raised THEN NoArchive
                       ELSE [kind |-> "cbz", entries |-> cbz.entries],
           code |-> ExitOk]

\* lines 285-310: packaging and the end of main
PackageOutcome(rar_cmd, cbr, cbz) ==
  LET rarCall == IF cbr.invoked THEN <<[backend |-> "rar", files |-> cbr.entries]>> ELSE <<>>
      zipCall == IF cbz.invoked THEN <<[backend |-> "zip", files |-> cbz.entries]>> ELSE <<>>
  IN IF rar_cmd # "none" /\ ~cbr.raised
     THEN [calls |-> rarCall, archive |-> [kind |-> "cbr", entries |-> cbr.entries],
           code |-> ExitOk]
     ELSE [calls |-> (IF rar_cmd # "none" THEN rarCall ELSE <<>>) \o zipCall,
           archive |-> IF cbz.raised THEN NoArchive
                       ELSE [kind |-> "cbz", entries |-> cbz.entries],
           code |-> IF cbz.raised THEN ExitUncaught ELSE ExitOk]

\* ------------------------------------------------------------ inputs

Host == SchemeHttp \o <<"x">>

\* args.url, the base URL
BaseUrl == Host \o <<"/","p">>

P_a1 == <<"/","a","/","1",".","j","p","g">>

P_a2 == <<"/","a","/","2",".","j","p","g">>

P_a10 == <<"/","a","/","1","0",".","j","p","g">>

P_A1 == <<"/","A","/","1",".","J","P","G">>

P_a01 == <<"/","a","/","0","1",".","j","p","g">>

P_view == <<"/","v","?","i","=","3">>

P_amp == <<"/","i","?","a","&","a","m","p",";","f","=","b",".","p","n","g">>

QuotedRel == <<" ","'">> \o P_a2 \o <<"'"," ">>

SrcsetText == P_a2 \o <<" ","1","x",","," ">> \o P_a10 \o <<" ","2","x">>

ScriptText(u) == <<"s","=","'">> \o u \o <<"'",";">>

ImgPool ==
  { Img(<<P_a1>>, <<>>, <<>>),
    Img(<<Host \o P_a1>>, <<>>, <<>>),
    Img(<<QuotedRel, Host \o P_view>>, <<>>, <<>>),
    Img(<<Host \o P_amp>>, <<>>, <<>>),
    Img(<<>>, <<>>, SrcsetText) }

AnchorPool == { <<>>, <<Host \o P_a1>>, <<Host \o P_view, P_a10>> }

ScriptPool ==
  { <<>>,
    <<ScriptText(Host \o P_A1)>>,
    <<ScriptText(Host \o P_a01), ScriptText(Host \o P_a1)>>,
    <<ScriptText(Host \o P_A1), ScriptText(Host \o P_view)>> }

RECURSIVE SeqsUpTo(_, _)
SeqsUpTo(S, n) ==
  IF n = 0 THEN {<<>>}
  ELSE LET shorter == SeqsUpTo(S, n - 1)
       IN shorter \cup {Append(s, x) : s \in shorter, x \in S}

\* the pages of the extraction and sequencing specification
GenPages ==
  {Page(imgs, anchors, scripts) :
     imgs \in SeqsUpTo(ImgPool, MaxImgTags), anchors \in AnchorPool, scripts \in ScriptPool}

\* the pages of the whole-run specification
RunPages ==
  { Page(<<>>, <<>>, <<>>),
    Page(<<Img(<<P_a1>>, <<>>, <<>>), Img(<<P_a2>>, <<>>, <<>>), Img(<<P_a10>>, <<>>, <<>>)>>,
         <<>>, <<>>),
    Page(<<Img(<<Host \o P_view>>, <<>>, <<>>), Img(<<P_a10>>, <<>>, <<>>)>>,
         <<Host \o P_a1>>, <<>>),
    Page(<<Img(<<Host \o P_view>>, <<>>, <<>>)>>, <<>>,
         <<ScriptText(Host \o P_a01), ScriptText(Host \o P_a1)>>) }

Args(no_ext_filter, max_images, rar) ==
  [no_ext_filter |-> no_ext_filter, max_images |-> max_images, rar |-> rar]

\* the command lines explored; rar: --rar was given
ArgsSet == {Args(f, m, r) : f \in BOOLEAN, m \in 0..MaxImagesOpt, r \in BOOLEAN}

ArgsSeqSet == {a \in ArgsSet : ~a.rar}

\* ------------------------------------------------------------ state

VARIABLES
  pc,         \* where main is: "start", "extract", "sequence", "download", "package", "done"
  args,       \* the parsed command line
  html,       \* the page fetched
  urls,       \* urls of extract_image_urls_from_html before normalization
  extracted,  \* the extractor's result
  img_urls,   \* main's img_urls
  idx,        \* the index of the next item of the download loop
  ok_count,
  failures,
  files,      \* the names of the files in images_dir
  log,        \* history: one record per item attempted
  last,       \* history: the response and result of the item the loop body
              \* has just handled and whether os.remove raised in its
              \* clean-up, NoLast outside the loop
  calls,      \* history: the archive backends invoked, in order
  archive,    \* the archive produced
  exit_code   \* the exit status, Running while main runs

vars == <<pc, args, html, urls, extracted, img_urls, idx, ok_count, failures,
          files, log, last, calls, archive, exit_code>>

\* html before the page is fetched
NoPage == [fetched |-> FALSE]

NoLast == [resp |-> Resp(FALSE, FALSE, 0, "none", 0),
           res |-> DownloadResult(FALSE, "", FALSE, 0),
           remove_raised |-> FALSE]

InitWith(argSet) ==
  /\ pc = "start"
  /\ args \in argSet
  /\ html = NoPage
  /\ urls = <<>>
  /\ extracted = <<>>
  /\ img_urls = <<>>
  /\ idx = 1
  /\ ok_count = 0
  /\ failures = <<>>
  /\ files = {}
  /\ log = <<>>
  /\ last = NoLast
  /\ calls = <<>>
  /\ archive = NoArchive
  /\ exit_code = Running

Init == InitWith(ArgsSet)

InitSeq == InitWith(ArgsSeqSet)

Exit(code) == pc' = "done" /\ exit_code' = code

\* lines 215-230: the page is fetched, or the fetch fails
Fetch(pages) ==
  /\ pc = "start"
  /\ \/ /\ Exit(ExitFetchFailed)
        /\ UNCHANGED html
     \/ /\ \E page \in pages : html' = page
        /\ pc' = "extract"
        /\ UNCHANGED exit_code
  /\ UNCHANGED <<args, urls, extracted, img_urls, idx, ok_count, failures,
                 files, log, last, calls, archive>>

\* line 235: extract_image_urls_from_html(base_url, html)
Extract ==
  /\ pc = "extract"
  /\ \E rawOrder \in Orders(RawKept(html)) :
       /\ urls' = CollectUrls(html, rawOrder)
       /\ extracted' = extract_image_urls_from_html(BaseUrl, html, rawOrder)
  /\ pc' = "sequence"
  /\ UNCHANGED <<args, html, img_urls, idx, ok_count, failures, files, log,
                 last, calls, archive, exit_code>>

\* lines 237-249: filter, truncate, stop when empty, sort
Sequence ==
  /\ pc = "sequence"
  /\ IF Selected(args, extracted) = <<>>
     THEN /\ Exit(ExitNoCandidates)
          /\ img_urls' = <<>>
     ELSE /\ img_urls' = Sequencer(args, extracted)
          /\ pc' = "download"
          /\ UNCHANGED exit_code
  /\ UNCHANGED <<args, html, urls, extracted, idx, ok_count, failures, files,
                 log, last, calls, archive>>

\* lines 259-278: one iteration of the download loop
DownloadItem ==
  /\ pc = "download"
  /\ idx <= Len(img_urls)
  /\ LET u == img_urls[idx]
         fname == FileName(idx, u)
     IN \E resp \in Responses :
          LET res == download_one(u, resp)
              written == IF res.wrote THEN files \cup {fname} ELSE files
          IN /\ ok_count' = IF res.ok THEN ok_count + 1 ELSE ok_count
             /\ failures' = RecordFailure(failures, u, res)
             /\ \E remove_raises \in (IF ~res.ok /\ fname \in written THEN BOOLEAN ELSE {FALSE}) :
                  /\ files' = IF res.ok THEN written
                              ELSE RemovePartial(written, fname, remove_raises)
                  /\ last' = [resp |-> resp, res |-> res, remove_raised |-> remove_raises]
             /\ log' = Append(log, [idx |-> idx, url |-> u, fname |-> fname, ok |-> res.ok])
  /\ idx' = idx + 1
  /\ UNCHANGED <<pc, args, html, urls, extracted, img_urls, calls, archive, exit_code>>

\* lines 280-282: the loop is over
LoopEnd ==
  /\ pc = "download"
  /\ idx > Len(img_urls)
  /\ IF AfterLoop(ok_count) = Running
     THEN pc' = "package" /\ UNCHANGED exit_code
     ELSE Exit(AfterLoop(ok_count))
  /\ last' = NoLast
  /\ UNCHANGED <<args, html, urls, extracted, img_urls, idx, ok_count, failures,
                 files, log, calls, archive>>

\* lines 284-310: packaging.  listing: the order in which os.listdir returns
\* the names of images_dir, which does not change between the two backends.
Package ==
  /\ pc = "package"
  /\ \E listing \in Orders(files) :
       \E cbrFiles \in {RarFiles(listing)}, cbzFiles \in {ZipFiles(listing)} :
         \E on_path \in BOOLEAN, run \in {"ok", "nonzero", "oserror"}, zip_ok \in BOOLEAN :
           \E out \in {PackageOutcome(find_rar_executable(args.rar, on_path),
                                      make_cbr_with_rar(cbrFiles, run),
                                      make_cbz_zip(cbzFiles, zip_ok))} :
             /\ calls' = out.calls
             /\ archive' = out.archive
             /\ Exit(out.code)
  /\ UNCHANGED <<args, html, urls, extracted, img_urls, idx, ok_count, failures,
                 files, log, last>>

Next ==
  \/ Fetch(RunPages)
  \/ Extract
  \/ Sequence
  \/ DownloadItem
  \/ LoopEnd
  \/ Package

Spec == Init /\ [][Next]_vars

NextSeq ==
  \/ Fetch(GenPages)
  \/ Extract
  \/ Sequence

SpecSeq == InitSeq /\ [][NextSeq]_vars

\* ------------------------------------------------------------ properties

Failed(e) == ~e.ok

Succeeded(e) == e.ok

FailureReasons == {"http", "ctype", "small", "fs"}

\* the loop has been left: every later position of main
LoopOver == pc = "package" \/ (pc = "done" /\ exit_code \in {ExitOk, ExitUncaught, ExitNoImages})

\* the file names of the items downloaded successfully
OkNames == {log[k].fname : k \in {j \in 1..Len(log) : log[j].ok}}

EntrySet(entries) == {entries[i] : i \in 1..Len(entries)}

\* the number a file name starts with
NameNumber(fname) == ToInt(SubSeq(fname, 1, 4))

\* C1: failure isolation.  The items are attempted once each, in index order
\* 1..n, whatever earlier items did; every failed item adds exactly one
\* (url, reason) record, in order; nothing ends the run inside the loop; and
\* when the loop is over all n items were attempted and
\* ok_count + number of failure records = n.
C1_FailureIsolation ==
  /\ Len(log) = idx - 1
  /\ \A k \in 1..Len(log) : log[k].idx = k /\ log[k].url = img_urls[k]
  /\ ok_count = Len(SelectSeq(log, Succeeded))
  /\ Len(failures) = Len(SelectSeq(log, Failed))
  /\ \A j \in 1..Len(failures) :
       /\ failures[j][1] = SelectSeq(log, Failed)[j].url
       /\ failures[j][2] \in FailureReasons
  /\ ok_count + Len(failures) = Len(log)
  /\ pc = "download" => exit_code = Running
  /\ LoopOver => Len(log) = Len(img_urls)
  /\ (pc = "done" /\ ~LoopOver) => log = <<>>

\* C1 witness: a run of three items left the loop after a failure, a success
\* and another failure.
C1_Witness ==
  /\ pc = "package"
  /\ Len(log) = 3
  /\ ~log[1].ok /\ log[2].ok /\ ~log[3].ok
  /\ Len(failures) = 2

\* C2: zero-success termination.  When every candidate of a non-empty list
\* failed, the run ends with exit code 4, after all candidates were attempted,
\* and no archive backend is invoked and no archive produced; when one
\* succeeded, the run goes on to packaging and a backend is invoked.
C2_ZeroSuccess ==
  /\ exit_code = ExitNoImages =>
       /\ img_urls # <<>>
       /\ Len(log) = Len(img_urls)
       /\ \A k \in 1..Len(log) : ~log[k].ok
       /\ calls = <<>>
       /\ archive = NoArchive
  /\ (\A k \in 1..Len(log) : ~log[k].ok) => calls = <<>> /\ archive = NoArchive
  /\ (img_urls # <<>> /\ Len(log) = Len(img_urls) /\ pc # "download") =>
       IF \A k \in 1..Len(log) : ~log[k].ok
       THEN pc = "done" /\ exit_code = ExitNoImages
       ELSE \/ pc = "package"
            \/ pc = "done" /\ exit_code \in {ExitOk, ExitUncaught} /\ calls # <<>>

\* C2 witness: three candidates, all failed, exit code 4.
C2_Witness ==
  /\ pc = "done"
  /\ exit_code = ExitNoImages
  /\ Len(log) = 3
  /\ Len(failures) = 3

\* C3: index assignment and archive order.  The file name of the item at
\* position k of the sorted candidate list is the 4-digit zero-padded k
\* followed by an extension, whatever the outcome of any download; the
\* entries of an archive are in strictly increasing index order and hold
\* every successful item; when all n items succeeded the archive holds
\* exactly the n entries numbered 1..n in that order.
C3_IndexAndOrder ==
  /\ \A k \in 1..Len(log) :
       /\ log[k].url = img_urls[k]
       /\ Len(log[k].fname) > 4
       /\ \A d \in 1..4 : IsDigit(log[k].fname[d])
       /\ log[k].fname[5] = "."
       /\ NameNumber(log[k].fname) = k
  /\ \A i, j \in 1..Len(img_urls) :
       i < j => KeyLeq(natural_key(img_urls[i]), natural_key(img_urls[j]))
  /\ \A c \in 1..Len(calls) : \A i, j \in 1..Len(calls[c].files) :
       i < j => NameNumber(calls[c].files[i]) < NameNumber(calls[c].files[j])
  /\ archive # NoArchive =>
       /\ \A i, j \in 1..Len(archive.entries) :
            i < j => NameNumber(archive.entries[i]) < NameNumber(archive.entries[j])
       /\ OkNames \subseteq EntrySet(archive.entries)
       /\ (\A k \in 1..Len(log) : log[k].ok) =>
            /\ Len(archive.entries) = Len(img_urls)
            /\ \A k \in 1..Len(log) :
                 archive.entries[k] = log[k].fname /\ NameNumber(archive.entries[k]) = k

\* C3 witness: the three candidates /a/1.jpg, /a/2.jpg, /a/10.jpg all
\* downloaded, and the archive holds 0001.jpg, 0002.jpg, 0003.jpg.
C3_Witness ==
  /\ archive # NoArchive
  /\ img_urls = <<Host \o P_a1, Host \o P_a2, Host \o P_a10>>
  /\ \A k \in 1..Len(log) : log[k].ok
  /\ archive.entries = << <<"0","0","0","1",".","j","p","g">>,
                          <<"0","0","0","2",".","j","p","g">>,
                          <<"0","0","0","3",".","j","p","g">> >>

\* C4: no failed artifact reaches the archive.  After every iteration the
\* working directory holds the file of an item if and only if its download
\* succeeded, so the files handed to an archive backend are exactly those of
\* the successful downloads.
C4_NoFailedArtifact ==
  /\ \A k \in 1..Len(log) : log[k].fname \in files <=> log[k].ok
  /\ \A c \in 1..Len(calls) : EntrySet(calls[c].files) = OkNames

\* C5 as stated: a run that reaches packaging and whose preferred packer is
\* missing or fails falls back to the ZIP backend and still succeeds, with the
\* entries the preferred backend would have had; the ZIP backend is not
\* invoked when the preferred packer succeeded.
C5_FallbackAlwaysSucceeds ==
  (pc = "done" /\ calls # <<>>) =>
    /\ exit_code = ExitOk
    /\ archive # NoArchive
    /\ archive.kind = "cbr" => \A c \in 1..Len(calls) : calls[c].backend = "rar"
    /\ archive.kind = "cbz" =>
         \A listing \in Orders(files) : archive.entries = RarFiles(listing)

\* C5 amended: the fallback is taken exactly when no preferred packer is found
\* or its invocation fails; the run then succeeds exactly when the ZIP backend
\* does not fail itself; a fallback archive has the entries, in the order, the
\* preferred backend would have had, named by the bare file names of the
\* working directory; the ZIP backend is not invoked when the preferred packer
\* succeeded.
C5_Fallback ==
  (pc = "done" /\ calls # <<>>) =>
    /\ calls[Len(calls)].backend = "zip" <=> archive.kind # "cbr"
    /\ archive.kind = "cbr" => calls = <<[backend |-> "rar", files |-> archive.entries]>>
    /\ archive.kind # "cbr" =>
         /\ Len(calls) \in {1, 2}
         /\ Len(calls) = 2 => calls[1].backend = "rar" /\ calls[1].files = calls[2].files
         /\ exit_code = ExitOk <=> archive.kind = "cbz"
    /\ archive.kind = "cbz" =>
         /\ archive.entries = calls[Len(calls)].files
         /\ \A listing \in Orders(files) : archive.entries = RarFiles(listing)
         /\ EntrySet(archive.entries) = files
         /\ Len(archive.entries) = Cardinality(files)

\* C5 witness: the preferred packer was invoked and failed, and the ZIP
\* backend produced an archive of two or more entries.
C5_Witness ==
  /\ pc = "done"
  /\ Len(calls) = 2
  /\ calls[1].backend = "rar"
  /\ archive.kind = "cbz"
  /\ Len(archive.entries) >= 2
  /\ exit_code = ExitOk

\* C6: exit codes.  A run ends with 2 exactly when the fetch failed, with 3
\* exactly when the candidate list is empty, with 4 exactly when no download
\* succeeded, with 1 exactly when packaging was reached and no backend
\* produced an archive, and with 0 exactly when an archive was produced; the
\* number of failed items plays no part once one item succeeded.
C6_ExitCodes ==
  /\ pc # "done" => exit_code = Running
  /\ pc = "done" =>
       /\ exit_code \in {ExitOk, ExitUncaught, ExitFetchFailed, ExitNoCandidates, ExitNoImages}
       /\ exit_code = ExitFetchFailed <=> html = NoPage
       /\ exit_code = ExitNoCandidates <=> html # NoPage /\ img_urls = <<>>
       /\ exit_code = ExitNoImages <=> img_urls # <<>> /\ ok_count = 0
       /\ exit_code = ExitUncaught <=> ok_count > 0 /\ archive = NoArchive
       /\ exit_code = ExitOk <=> archive # NoArchive
       /\ exit_code = ExitUncaught =>
            /\ calls[Len(calls)].backend = "zip"
            /\ \A c \in 1..Len(calls) : calls[c].files # <<>>
       /\ archive # NoArchive => ok_count > 0

\* C6 witness: both backends failed on a run with a failed item, exit code 1.
C6_Witness ==
  /\ pc = "done"
  /\ exit_code = ExitUncaught
  /\ Len(calls) = 2
  /\ failures # <<>>
  /\ ok_count > 0

\* the first n elements of s
Prefix(s, n) == IF Len(s) > n THEN SubSeq(s, 1, n) ELSE s

\* C7: candidate sequencer.  The final list is a rearrangement, sorted by the
\* natural-sort key, of the list obtained by first dropping the URLs that
\* fail the extension pattern (unless the filter is disabled) and then
\* keeping the first max_images of what is left, in discovery order (when
\* max_images > 0); it has at most max_images entries when max_images > 0 and
\* only URLs matching the pattern when the filter is enabled; when the list
\* is empty the run ends with exit code 3 and no download is attempted.
C7_Sequencer ==
  pc \in {"download", "package", "done"} /\ html # NoPage =>
    LET filtered == IF args.no_ext_filter THEN extracted
                    ELSE SelectSeq(extracted, is_probably_image_url)
        chosen == IF args.max_images > 0 THEN Prefix(filtered, args.max_images)
                  ELSE filtered
    IN /\ Len(img_urls) = Len(chosen)
       /\ EntrySet(img_urls) = EntrySet(chosen)
       /\ \A i, j \in 1..Len(img_urls) :
            i < j => KeyLeq(natural_key(img_urls[i]), natural_key(img_urls[j]))
       /\ args.max_images > 0 => Len(img_urls) <= args.max_images
       /\ ~args.no_ext_filter =>
            \A i \in 1..Len(img_urls) : is_probably_image_url(img_urls[i])
       /\ chosen = <<>> <=> pc = "done" /\ exit_code = ExitNoCandidates
       /\ chosen = <<>> => log = <<>> /\ files = {} /\ calls = <<>>

\* C7 witness: a page whose first URL fails the extension pattern, filtered
\* and truncated to two candidates that the sort puts in another order than
\* the page.
C7_Witness ==
  /\ pc = "download"
  /\ ~args.no_ext_filter
  /\ args.max_images = 2
  /\ Len(extracted) > 2
  /\ ~is_probably_image_url(extracted[1])
  /\ Len(img_urls) = 2
  /\ img_urls # SelectSeq(extracted, is_probably_image_url)

\* C8: deterministic order.  For a page and a command line, the final
\* candidate list is the same whatever the order in which the raw-text
\* matches were collected.
C8_Deterministic ==
  pc = "download" =>
    \A rawOrder \in Orders(RawKept(html)) :
      Sequencer(args, extract_image_urls_from_html(BaseUrl, html, rawOrder)) = img_urls

\* the absolute URL a collected value stands for, <<>> when it is dropped
Normalized(raw) == IF clean_url(raw) = <<>> THEN <<>> ELSE urljoin(BaseUrl, clean_url(raw))

\* the first position of x in s
FirstIn(x, s) == CHOOSE i \in 1..Len(s) : s[i] = x /\ \A j \in 1..(i - 1) : s[j] # x

\* C10: extractor deduplication.  The extractor's result holds no absolute
\* URL twice; it holds exactly the normalized absolute URLs of the values
\* collected; and its order is the order of first discovery.
C10_Dedup ==
  pc # "start" /\ pc # "extract" /\ html # NoPage =>
    \A found \in {[i \in 1..Len(urls) |-> Normalized(urls[i])]} :
      /\ \A p, q \in 1..Len(extracted) : p # q => extracted[p] # extracted[q]
      /\ EntrySet(extracted) = EntrySet(found) \ {<<>>}
      /\ \A p, q \in 1..Len(extracted) :
           p < q => FirstIn(extracted[p], found) < FirstIn(extracted[q], found)

\* C10 witness: one absolute URL was discovered through an image attribute
\* and, written differently, through another source, with a different URL
\* discovered in between.
C10_Witness ==
  /\ pc = "sequence"
  /\ \E i, j, k \in 1..Len(urls) :
       /\ i < k /\ k < j
       /\ urls[i] # urls[j]
       /\ Normalized(urls[i]) = Normalized(urls[j])
       /\ Normalized(urls[k]) # Normalized(urls[i])
       /\ Normalized(urls[k]) # <<>>
  /\ Len(extracted) >= 2

\* the item the loop body has just handled
LastItem == log[Len(log)]

InLoopBody == pc = "download" /\ log # <<>>

====
